---------------------------- MODULE Spec2Model ----------------------------
(***************************************************************************)
(* A model of the kernel-PCA anomaly detector of src/Kpca.py (class kPCA). *)
(*                                                                         *)
(* Representation.  A float is a fixed-point integer counted in 1/Unit;    *)
(* a non-finite float (nan, and the inf that 1/np.sqrt(0) produces, which  *)
(* turns into nan in the first sum it meets) is the value NaN, absorbing   *)
(* in every arithmetic operation and false in every comparison.  A matrix  *)
(* is a sequence of rows; Python's 0-based row i is row i+1 here.          *)
(* The symmetric eigensolver (scipy.linalg.eigh) and the random            *)
(* permutation (np.random.permutation) are library calls: the model draws  *)
(* their results from bounded sets of the results they can give.           *)
(***************************************************************************)
EXTENDS Integers, Sequences, FiniteSets, TLC

(* ------------------------------ bounds -------------------------------- *)
\* most rows of a training set handed to fit, and the largest integer q
MaxRows == 2
\* most rows of a test set handed to decision_function
MaxTestRows == 3
\* largest configured batch_size
MaxBatch == 2
\* the interpreter's recursion limit (sys.getrecursionlimit(), 1000 by
\* default), scaled down
RecursionLimit == 3

(* --------------------------- float arithmetic ------------------------- *)
Unit == 100
NaN == -2000000000

IsNaN(a) == a = NaN
Add(a, b) == IF IsNaN(a) \/ IsNaN(b) THEN NaN ELSE a + b
Sub(a, b) == IF IsNaN(a) \/ IsNaN(b) THEN NaN ELSE a - b
\* product of two fixed-point numbers
Mul(a, b) == IF IsNaN(a) \/ IsNaN(b) THEN NaN ELSE (a * b) \div Unit
\* a fixed-point number divided by an integer count
DivInt(a, n) == IF IsNaN(a) THEN NaN ELSE a \div n
\* a < b of floats: False as soon as one side is nan
Lt(a, b) == ~IsNaN(a) /\ ~IsNaN(b) /\ a < b

Min(a, b) == IF a < b THEN a ELSE b
Max(a, b) == IF a > b THEN a ELSE b

RECURSIVE SumSeq(_)
SumSeq(s) == IF s = <<>> THEN 0 ELSE Add(Head(s), SumSeq(Tail(s)))

\* integer square root by Newton's iteration, r an upper estimate
RECURSIVE ISqrtIter(_, _)
ISqrtIter(n, r) ==
    LET r2 == (r + n \div r) \div 2
    IN  IF r2 >= r THEN r ELSE ISqrtIter(n, r2)

\* np.sqrt of a float: nan for a negative one
Sqrt(a) ==
    IF IsNaN(a) \/ a < 0 THEN NaN
    ELSE IF a = 0 THEN 0
    ELSE ISqrtIter(a * Unit, a * Unit)

\* 1/x of a float: inf for 0
Recip(a) == IF IsNaN(a) \/ a = 0 THEN NaN ELSE (Unit * Unit) \div a

\* np.exp(-t) for a float t >= 0 that is a multiple of 1/2
ExpHalf == 61
RECURSIVE ExpNeg(_)
ExpNeg(t) ==
    IF t < Unit \div 2 THEN Unit
    ELSE (ExpNeg(t - Unit \div 2) * ExpHalf) \div Unit

(* ------------------------------ matrices ------------------------------ *)
Rows(M) == Len(M)
Cols(M) == IF M = <<>> THEN 0 ELSE Len(M[1])

\* exact dot product of two rows of integer coordinates
RECURSIVE DotInt(_, _)
DotInt(u, v) ==
    IF u = <<>> THEN 0 ELSE Head(u) * Head(v) + DotInt(Tail(u), Tail(v))

\* M.sum(axis = 0): one sum per column
ColSums(M) ==
    [j \in 1..Cols(M) |-> SumSeq([i \in 1..Rows(M) |-> M[i][j]])]

\* np.dot(u, A) for a vector u and a matrix A: one entry per column of A
VecMat(u, A) ==
    [k \in 1..Cols(A) |-> SumSeq([i \in 1..Rows(A) |-> Mul(u[i], A[i][k])])]

(* ------------------------------- kernel ------------------------------- *)
\* __init__: sigma = 1.0, gamma = 1/2/sigma/sigma
sigma == 1
gamma == ((Unit \div 2) \div sigma) \div sigma

\* gramMatrix(X, X_S): the (rows of X_S) x (rows of X) RBF gram matrix;
\* a, b and sqrd_dists are the matrices of lines 118-121, entry by entry
gramMatrix(X, X_S) ==
    LET a(i, j) == DotInt(X_S[i], X_S[i])
        b(i, j) == DotInt(X[j], X[j])
        sqrd_dists(i, j) == a(i, j) + b(i, j) - 2 * DotInt(X_S[i], X[j])
    IN  [i \in 1..Rows(X_S) |-> [j \in 1..Rows(X) |->
             ExpNeg(gamma * sqrd_dists(i, j))]]

(* ----------------------- centering and eigenpairs --------------------- *)
\* Krow = K_mat.sum(axis = 0)/n_sub, lines 190 and 285
KrowOf(K_mat) ==
    LET Divide(sums) == [j \in 1..Rows(K_mat) |->
                            DivInt(sums[j], Rows(K_mat))]
    IN  Divide(ColSums(K_mat))

\* Ksum = Krow.sum()/n_sub, lines 191 and 286
KsumOf(Krow) == DivInt(SumSeq(Krow), Len(Krow))

\* (K_mat + K_mat.T) / 2, line 282
Symmetrize(K) ==
    [i \in 1..Rows(K) |-> [j \in 1..Rows(K) |-> (K[i][j] + K[j][i]) \div 2]]

\* fit, lines 285-291: the double-centered gram matrix
CenterGram(K_mat) ==
    LET Center(Krow, Ksum) ==
            [i \in 1..Rows(K_mat) |-> [j \in 1..Rows(K_mat) |->
                 K_mat[i][j] - Krow[i] - Krow[j] + Ksum]]
        WithKrow(Krow) == Center(Krow, KsumOf(Krow))
    IN  WithKrow(KrowOf(K_mat))

\* What rounding makes of an eigenvalue that is 0 in exact arithmetic:
\* slightly negative, exactly 0, or slightly positive.
ZeroEigs == {-1, 0, 1}

\* ascending sequences of length z over ZeroEigs
AscendingZeros(z) ==
    {s \in [1..z -> ZeroEigs] : \A i \in 1..z - 1 : s[i] <= s[i + 1]}

\* scipy.linalg.eigh(K_centered): ascending eigenvalues w, eigenvectors v as
\* columns.  A centered gram matrix of m distinct points has rank m - 1: its
\* n - m + 1 smallest eigenvalues are zero up to rounding, the others are
\* positive (here: above what rounding leaves of a zero) and sum to the
\* trace.  The zero matrix (all points equal) is decomposed exactly: w = 0,
\* v = identity.
eigh(K_centered) ==
    LET n == Rows(K_centered)
        m == Cardinality({K_centered[i] : i \in 1..n})
        z == n - m + 1
        trace == SumSeq([i \in 1..n |-> K_centered[i][i]])
        weights == ((m - 1) * m) \div 2
        pos(i) == Max(2, (trace * i) \div weights)
        identity == [i \in 1..n |-> [j \in 1..n |->
                        IF i = j THEN Unit ELSE 0]]
        mixed == [i \in 1..n |-> [j \in 1..n |->
                        IF i <= j THEN Unit \div 2 ELSE 0 - Unit \div 2]]
    IN  IF m = 1
        THEN {[w |-> [i \in 1..n |-> 0], v |-> identity]}
        ELSE {[w |-> [i \in 1..n |-> IF i <= z THEN zs[i] ELSE pos(i - z)],
               v |-> mixed] : zs \in AscendingZeros(z)}

\* eigenDecomp_gramMatrix, lines 150-158, on one result of eigh and an
\* integer numev = self.q: flip to descending order, keep the first numev
\* columns (a slice past the end keeps what is there), scale column k by
\* 1/sqrt(lambda_k).
ScaleAlphas(wv, numev) ==
    LET n == Len(wv.w)
        w(i) == wv.w[n + 1 - i]
        v(i, j) == wv.v[i][n + 1 - j]
        kept == Min(numev, n)
        Scale(inv_sqrt) ==
            [i \in 1..n |-> [k \in 1..kept |-> Mul(v(i, k), inv_sqrt[k])]]
    IN  Scale([k \in 1..kept |-> Recip(Sqrt(w(k)))])

(* --------------------- reconstruction-error engine -------------------- *)
\* range(0, n_samples, batch_size) cut to the full blocks: the rows after
\* the last full block are never scored
BlockStarts_FullBlocksOnly(n_samples, bsize) ==
    {block_i \in 0..n_samples - 1 :
        block_i % bsize = 0 /\ block_i + bsize <= n_samples}

\* range(0, n_samples, batch_size), line 197
BlockStarts(n_samples, bsize) ==
    {block_i \in 0..n_samples - 1 : block_i % bsize = 0}

\* X[block_i : block_i + batch_size, :], line 203
BlockOf(X, block_i, bsize) ==
    SubSeq(X, block_i + 1, Min(block_i + bsize, Len(X)))

\* f_L of lines 209-211 from the kernel slab k_L and its column sums
ProjectBlock(k_L, colsum, alphs, Krow, Ksum, sumalphs, KrowAlphs) ==
    [r \in 1..Cols(k_L) |-> [k \in 1..Cols(alphs) |->
        Sub(Sub(SumSeq([i \in 1..Rows(k_L) |-> Mul(k_L[i][r], alphs[i][k])]),
                Mul(sumalphs[k],
                    Sub(DivInt(colsum[r], Rows(k_L)), Ksum))),
            KrowAlphs[k])]]

\* errs_block of lines 214-215: the self-similarity term minus
\* np.diag(np.dot(f_L, f_L.T))
ErrsOfBlock(f_L, colsum, n_sub, Ksum) ==
    [r \in 1..Len(f_L) |->
        Sub(Add(Sub(Unit, DivInt(2 * colsum[r], n_sub)), Ksum),
            SumSeq([k \in 1..Len(f_L[r]) |-> Mul(f_L[r][k], f_L[r][k])]))]

\* lines 203-215: the errors of the rows of one block; Krow, Ksum and
\* sumalphs are the helper values of lines 190-192
BlockErrs(X_block, X_S, alphs, Krow, Ksum, sumalphs) ==
    LET WithSums(k_L, colsum) ==
            ErrsOfBlock(ProjectBlock(k_L, colsum, alphs, Krow, Ksum,
                                     sumalphs, VecMat(Krow, alphs)),
                        colsum, Rows(X_S), Ksum)
        WithKernel(k_L) == WithSums(k_L, ColSums(k_L))
    IN  WithKernel(gramMatrix(X_block, X_S))

\* reconstruction_errs[block_i : block_i + batch_size] = errs_block, line 221
AssignBlock(errs, block_i, errs_block) ==
    [i \in 1..Len(errs) |->
        IF i > block_i /\ i <= block_i + Len(errs_block)
        THEN errs_block[i - block_i] ELSE errs[i]]

\* the loop of lines 197-221 from block block_i on
RECURSIVE BlockLoop(_, _, _, _, _, _, _, _, _)
BlockLoop(errs, block_i, X, X_S, alphs, Krow, Ksum, sumalphs, bsize) ==
    IF block_i \notin BlockStarts(Len(X), bsize) THEN errs
    ELSE BlockLoop(AssignBlock(errs, block_i,
                       BlockErrs(BlockOf(X, block_i, bsize),
                                 X_S, alphs, Krow, Ksum, sumalphs)),
                   block_i + bsize,
                   X, X_S, alphs, Krow, Ksum, sumalphs, bsize)

\* calc_reconstructionErrors(X, X_S, K_mat, alphs) with self.batch_size
calc_reconstructionErrors(X, X_S, K_mat, alphs, bsize) ==
    LET Loop(Krow) ==
            BlockLoop([i \in 1..Rows(X) |-> 0], 0, X, X_S, alphs,
                      Krow, KsumOf(Krow), ColSums(alphs), bsize)
    IN  Loop(KrowOf(K_mat))

(* ----------------------------- thresholding --------------------------- *)
RECURSIVE Insert(_, _)
Insert(x, s) ==
    IF s = <<>> THEN <<x>>
    ELSE IF x <= Head(s) THEN <<x>> \o s
    ELSE <<Head(s)>> \o Insert(x, Tail(s))

RECURSIVE Sort(_)
Sort(s) == IF s = <<>> THEN <<>> ELSE Insert(Head(s), Sort(Tail(s)))

\* np.quantile(scores, p) for 0 <= p <= 1, linear interpolation; nan as soon
\* as one score is nan
Quantile(scores, p) ==
    LET Interpolate(s) ==
            LET h == (Len(s) - 1) * p
                lo == h \div Unit + 1
                hi == Min(lo + 1, Len(s))
            IN  s[lo] + ((s[hi] - s[lo]) * (h % Unit)) \div Unit
    IN  IF \E i \in 1..Len(scores) : IsNaN(scores[i]) THEN NaN
        ELSE Interpolate(Sort(scores))

\* labels = ones; labels[scores < threshold] = 0, lines 242-243 and 357-358
Labels(scores, thr) ==
    [i \in 1..Len(scores) |-> IF Lt(scores[i], thr) THEN 0 ELSE 1]

(* ------------------------------- inputs ------------------------------- *)
\* the rows a data set is made of, one or two features wide
Points == {<<0>>, <<1>>, <<0, 0>>, <<0, 1>>}

\* the rows of the test sets: a training point, a point that is in no
\* training set, and a row of the other width
TestPoints == {<<0>>, <<2>>, <<0, 1>>}

\* matrices of 1..maxn rows of one width
MatricesOf(points, maxn) ==
    UNION {{X \in [1..n -> points] : \A i \in 1..n : Len(X[i]) = Len(X[1])}
           : n \in 1..maxn}
Matrices(maxn) == MatricesOf(Points, maxn)

\* a fraction num/den, the sample_pct of the detector
Frac(num, den) == [num |-> num, den |-> den]
\* int(pct * n)
IntOfProduct(pct, n) == (pct.num * n) \div pct.den
\* pct < 1
BelowOne(pct) == pct.num < pct.den

\* constructor arguments: q is 'same' (the default), 'auto' or a positive
\* integer; sample_pct 1.0 (the default) or 0.5; contamination 0.1 (the
\* default), 0.7 or 1.5
QConfigs ==
    {[kind |-> "same", val |-> 0], [kind |-> "auto", val |-> 0]}
    \cup {[kind |-> "int", val |-> k] : k \in 1..MaxRows}
SampleFractions == {Frac(1, 1), Frac(1, 2)}
Contaminations == {Unit \div 10, (7 * Unit) \div 10, (15 * Unit) \div 10}

\* the attributes fit writes for decision_function to read
ModelAttrs == {"model_alphas", "model_X_S", "model_K_mat"}

(* -------------------------------- state ------------------------------- *)
VARIABLES
    self,            \* the detector: the attributes of the kPCA instance,
                     \* and in self.attrs the names of those fit has written
    ctor_sample_pct, \* the sample_pct __init__ was given
    last,            \* the call that ended last, and how
    fit_completed,   \* some fit has returned
    depth            \* frames of predict on the stack

vars == <<self, ctor_sample_pct, last, fit_completed, depth>>

\* __init__(q, sample_pct, batch_size, contamination), lines 71-81; the
\* attributes fit writes later do not exist yet
Construct(q, sample_pct, batch_size, contamination) ==
    [q |-> q, sample_pct |-> sample_pct, batch_size |-> batch_size,
     contamination |-> contamination,
     attrs |-> {},
     d_features |-> 0, n_sub |-> 0,
     model_alphas |-> <<>>, model_X_S |-> <<>>, model_K_mat |-> <<>>,
     decision_scores_ |-> <<>>, threshold_ |-> 0, labels_ |-> <<>>]

NoCall ==
    [op |-> "none", outcome |-> "none", n_samples |-> 0, d |-> 0,
     pct |-> Frac(1, 1), X |-> <<>>, ret |-> <<>>, fitted_before |-> FALSE]

Init ==
    /\ \E q \in QConfigs, pct \in SampleFractions,
          bsize \in 1..MaxBatch, contam \in Contaminations :
          /\ self = Construct(q, pct, bsize, contam)
          /\ ctor_sample_pct = pct
    /\ last = NoCall
    /\ fit_completed = FALSE
    /\ depth = 0

(* --------------------------------- fit -------------------------------- *)
\* how a call of fit ends: the instance it leaves and "ok" or the exception
Done(s, outcome) == [self |-> s, outcome |-> outcome]

\* an argument left at its default None
NoneArg == [given |-> FALSE, pct |-> Frac(0, 1)]

\* subsample_data(X, sample_pct = None), lines 94-100: None * int raises;
\* a given fraction draws the rows at a random permutation of range(n_sub)
subsample_data(X, pct_arg) ==
    IF ~pct_arg.given
    THEN [raises |-> "TypeError", X_s |-> {}]
    ELSE LET nsub == IntOfProduct(pct_arg.pct, Rows(X))
         IN  [raises |-> "none",
              X_s |-> {[i \in 1..nsub |-> X[perm[i]]] :
                          perm \in Permutations(1..nsub)}]

\* threshold(scores, contamination), lines 241-246; np.quantile raises
\* ValueError for a quantile outside [0, 1]
threshold(scores, contam) ==
    LET p == Unit - contam
        Label(thr) == [raises |-> "none", threshold_ |-> thr,
                       labels |-> Labels(scores, thr)]
    IN  IF p < 0 \/ p > Unit
        THEN [raises |-> "ValueError", threshold_ |-> 0, labels |-> <<>>]
        ELSE Label(Quantile(scores, p))

\* fit, lines 311-315: store the scores, threshold them
fit_threshold(s, errs, thr) ==
    IF thr.raises # "none"
    THEN Done([s EXCEPT !.decision_scores_ = errs,
                        !.attrs = @ \cup {"decision_scores_"}],
              thr.raises)
    ELSE Done([s EXCEPT !.decision_scores_ = errs,
                        !.threshold_ = thr.threshold_,
                        !.labels_ = thr.labels,
                        !.attrs = @ \cup {"decision_scores_", "threshold_",
                                          "labels_"}],
              "ok")

\* fit, line 309: score the training set
fit_score(s, X, errs) ==
    fit_threshold(s, errs, threshold(errs, s.contamination))

\* fit, lines 305-307: store the model
fit_store(s, X, X_S, K_mat, alphs) ==
    fit_score([s EXCEPT !.model_alphas = alphs,
                        !.model_X_S = X_S,
                        !.model_K_mat = K_mat,
                        !.attrs = @ \cup ModelAttrs],
              X,
              calc_reconstructionErrors(X, X_S, K_mat, alphs, s.batch_size))

\* fit, lines 285-300, and eigenDecomp_gramMatrix: eigh runs, then line 153
\* slices with numev = self.q, which raises for a str
fit_eigen(s, X, X_S, K_mat) ==
    {IF s.q.kind # "int"
     THEN Done(s, "TypeError")
     ELSE fit_store(s, X, X_S, K_mat, ScaleAlphas(wv, s.q.val))
       : wv \in eigh(CenterGram(K_mat))}

\* fit, lines 270-282: subsample when sample_pct < 1, then the gram matrix
fit_subsample(s, X) ==
    LET sub == subsample_data(X, NoneArg)
    IN  IF BelowOne(s.sample_pct)
        THEN IF sub.raises # "none"
             THEN {Done(s, sub.raises)}
             ELSE UNION {fit_eigen(s, X, X_S,
                                   Symmetrize(gramMatrix(X_S, X_S)))
                           : X_S \in sub.X_s}
        ELSE fit_eigen(s, X, X, Symmetrize(gramMatrix(X, X)))

\* 1e-3 of line 267, as the denominator of a fraction
InvEps == 1000

\* fit(X), lines 262-315, on the instance s: the ways it can end
fit(s, X) ==
    LET n_samples == Rows(X)
        d == Cols(X)
        s1 == [s EXCEPT !.d_features = d, !.attrs = @ \cup {"d_features"}]
    IN  IF IntOfProduct(s.sample_pct, n_samples) < d
        THEN IF s.q.kind # "int"
             THEN \* line 266: max of a str and an int
                  {Done(s1, "TypeError")}
             ELSE fit_subsample(
                      [s1 EXCEPT !.n_sub = Max(s.q.val, d),
                                 !.attrs = @ \cup {"n_sub"},
                                 !.sample_pct =
                                     Frac(InvEps * Max(s.q.val, d) + n_samples,
                                          InvEps * n_samples)],
                      X)
        ELSE fit_subsample(s1, X)

\* the record of a fit that has ended: its outcome, the shape of X, the
\* sample_pct it started with and, when it returned, X
FitEnded(outcome, X, pct, before) ==
    [op |-> "fit", outcome |-> outcome,
     n_samples |-> Rows(X), d |-> Cols(X), pct |-> pct,
     X |-> IF outcome = "ok" THEN X ELSE <<>>,
     ret |-> <<>>, fitted_before |-> before]

Fit(X) ==
    /\ depth = 0
    /\ \E r \in fit(self, X) :
          /\ self' = r.self
          /\ last' = FitEnded(r.outcome, X, self.sample_pct, fit_completed)
          /\ fit_completed' = (fit_completed \/ r.outcome = "ok")
    /\ UNCHANGED <<ctor_sample_pct, depth>>

(* ------------------------ decision_function, predict ------------------ *)
\* the record of a decision_function or predict: its outcome and, when it
\* returned, its input and what it returned
Ended(op, outcome, X, ret) ==
    [op |-> op, outcome |-> outcome, n_samples |-> 0, d |-> 0,
     pct |-> self.sample_pct, X |-> X, ret |-> ret,
     fitted_before |-> fit_completed]

\* what decision_function is given: a matrix, or one example as a vector
TestInputs ==
    {[ndim |-> 2, data |-> X] : X \in MatricesOf(TestPoints, MaxTestRows)}
    \cup {[ndim |-> 1, data |-> p] : p \in TestPoints}

\* np.expand_dims(X_test, axis = 0) when X_test.ndim == 1
ExpandDims(x) == IF x.ndim = 1 THEN <<x.data>> ELSE x.data

\* decision_function(X_test), lines 329-334
decision_function(x) ==
    /\ depth = 0
    /\ UNCHANGED <<self, ctor_sample_pct, fit_completed, depth>>
    /\ \E X_test \in {ExpandDims(x)} :
           IF ~(ModelAttrs \subseteq self.attrs)
           THEN last' = Ended("decision_function", "AttributeError",
                              <<>>, <<>>)
           ELSE IF Cols(X_test) # Cols(self.model_X_S)
           THEN \* X_S.dot(X.T) of line 121: shapes not aligned
                last' = Ended("decision_function", "ValueError", <<>>, <<>>)
           ELSE last' = Ended("decision_function", "ok", X_test,
                              calc_reconstructionErrors(
                                  X_test, self.model_X_S, self.model_K_mat,
                                  self.model_alphas, self.batch_size))

\* the threshold argument of predict: None, or 0.5
ThresholdArgs ==
    {[given |-> FALSE, val |-> 0], [given |-> TRUE, val |-> Unit \div 2]}

\* predict(X_test, threshold), lines 349-355, called from outside: it reads
\* self.threshold_ when threshold is None, then calls self.predict(X_test).
\* X_test is only reshaped on the way: nothing that happens depends on it.
predict(thr) ==
    /\ depth = 0
    /\ UNCHANGED <<self, ctor_sample_pct, fit_completed>>
    /\ IF ~thr.given /\ "threshold_" \notin self.attrs
       THEN /\ last' = Ended("predict", "AttributeError", <<>>, <<>>)
            /\ depth' = 0
       ELSE /\ last' = Ended("predict", "running", <<>>, <<>>)
            /\ depth' = 1

\* the frame entered by self.predict(X_test) of line 355: threshold is None
\* in it, so it reads self.threshold_ and calls self.predict(X_test) again
predict_calls_predict ==
    /\ depth >= 1
    /\ depth < RecursionLimit
    /\ UNCHANGED <<self, ctor_sample_pct, fit_completed>>
    /\ IF "threshold_" \notin self.attrs
       THEN /\ last' = [last EXCEPT !.outcome = "AttributeError"]
            /\ depth' = 0
       ELSE /\ last' = last
            /\ depth' = depth + 1

\* the interpreter refuses one more frame: RecursionError unwinds them all.
\* Lines 357-360 of predict are never reached.
predict_overflows ==
    /\ depth = RecursionLimit
    /\ last' = [last EXCEPT !.outcome = "RecursionError"]
    /\ depth' = 0
    /\ UNCHANGED <<self, ctor_sample_pct, fit_completed>>

Next ==
    \/ \E X \in Matrices(MaxRows) : Fit(X)
    \/ \E x \in TestInputs : decision_function(x)
    \/ \E thr \in ThresholdArgs : predict(thr)
    \/ predict_calls_predict
    \/ predict_overflows

Spec == Init /\ [][Next]_vars

(* The scoring calls on their own: a detector with the default sample_pct   *)
(* and contamination and an integer q (one component, or as many as the      *)
(* largest training set has rows), after one fit that returned, then any     *)
(* number of decision_function calls.                                        *)
InitScore ==
    /\ \E k \in {1, MaxRows}, bsize \in 1..MaxBatch, X \in Matrices(MaxRows) :
         \E r \in fit(Construct([kind |-> "int", val |-> k], Frac(1, 1),
                                bsize, Unit \div 10), X) :
            /\ r.outcome = "ok"
            /\ self = r.self
            /\ last = FitEnded("ok", X, Frac(1, 1), FALSE)
    /\ ctor_sample_pct = Frac(1, 1)
    /\ fit_completed = TRUE
    /\ depth = 0

NextScore == \E x \in TestInputs : decision_function(x)

SpecScore == InitScore /\ [][NextScore]_vars

(* ------------------------------- claims ------------------------------- *)
FitReturned == last.op = "fit" /\ last.outcome = "ok"
HasNaN(seq) == \E i \in 1..Len(seq) : IsNaN(seq[i])
\* a >= b of floats
Ge(a, b) == ~IsNaN(a) /\ ~IsNaN(b) /\ a >= b
\* the score of one row scored on its own
ScoreAlone(row) ==
    calc_reconstructionErrors(<<row>>, self.model_X_S, self.model_K_mat,
                              self.model_alphas, 1)[1]

\* C1: on a fitted detector predict never calls itself, ends by returning,
\* and returns one label per row of X_test: 1 where the decision_function
\* score is >= the threshold (the given one, or threshold_), 0 elsewhere.
C1_PredictReturnsLabels ==
    /\ depth <= 1
    /\ (last.op = "predict" /\ last.fitted_before /\ depth = 0) =>
          /\ last.outcome = "ok"
          /\ Len(last.ret) = Len(last.X)
          /\ \E t \in {self.threshold_, Unit \div 2} :
                \A i \in 1..Len(last.X) :
                    last.ret[i] =
                        IF Ge(ScoreAlone(last.X[i]), t) THEN 1 ELSE 0

\* C2: with the default sample_pct and contamination, a fit whose q is
\* 'same', 'auto' or an integer <= n_sub returns, and model_alphas has n_sub
\* rows and n_sub, d_features or q columns respectively.
C2_FitRetainsQ ==
    (/\ last.op = "fit"
     /\ last.pct = Frac(1, 1)
     /\ self.contamination = Unit \div 10
     /\ self.q.kind = "int" => self.q.val <= last.n_samples) =>
        /\ last.outcome = "ok"
        /\ Rows(self.model_alphas) = Rows(self.model_X_S)
        /\ Cols(self.model_alphas) =
              CASE self.q.kind = "same" -> Rows(self.model_X_S)
                [] self.q.kind = "auto" -> self.d_features
                [] OTHER -> self.q.val

\* C3: decision_function and predict on a detector on which no fit has
\* returned end with a 'not fitted' error.
C3_UnfittedRaisesNotFitted ==
    (/\ last.op \in {"decision_function", "predict"}
     /\ ~last.fitted_before
     /\ depth = 0) =>
        last.outcome = "NotFittedError"

\* C4: a fit with sample_pct p < 1 (q, d_features and contamination such
\* that nothing else stands in the way) returns, and model_X_S is
\* floor(p * n_samples) rows of X at pairwise distinct indices.
C4_SubsampleStored ==
    (/\ last.op = "fit"
     /\ BelowOne(last.pct)
     /\ self.q.kind = "int"
     /\ self.q.val <= IntOfProduct(last.pct, last.n_samples)
     /\ last.d <= IntOfProduct(last.pct, last.n_samples)
     /\ self.contamination = Unit \div 10) =>
        /\ last.outcome = "ok"
        /\ Rows(self.model_X_S) = IntOfProduct(last.pct, last.n_samples)
        /\ \E idx \in [1..Rows(self.model_X_S) -> 1..last.n_samples] :
              /\ \A i, j \in DOMAIN idx : i # j => idx[i] # idx[j]
              /\ \A i \in DOMAIN idx : self.model_X_S[i] = last.X[idx[i]]

\* C5: blocking does not change the scores.  What decision_function returned
\* has one entry per row of X_test, entry i is the score of row i scored on
\* its own, and every batch size gives the same vector; the same holds of
\* decision_scores_, the scores fit computed for the rows of its X.
C5_BlockingDoesNotChangeScores ==
    /\ (last.op = "decision_function" /\ last.outcome = "ok") =>
          /\ Len(last.ret) = Len(last.X)
          /\ \A i \in 1..Len(last.X) : last.ret[i] = ScoreAlone(last.X[i])
          /\ \A b \in 1..Len(last.X) + 1 :
                calc_reconstructionErrors(
                    last.X, self.model_X_S, self.model_K_mat,
                    self.model_alphas, b) = last.ret
    /\ FitReturned =>
          /\ Len(self.decision_scores_) = Len(last.X)
          /\ \A i \in 1..Len(last.X) :
                self.decision_scores_[i] = ScoreAlone(last.X[i])

\* a decision_function that returned finite, not all equal scores for a test
\* set other than the training set, scored in several blocks of which the
\* last is shorter than batch_size
C5_Witness ==
    /\ last.op = "decision_function"
    /\ last.outcome = "ok"
    /\ Len(last.X) > self.batch_size
    /\ Len(last.X) % self.batch_size # 0
    /\ last.X # self.model_X_S
    /\ ~HasNaN(last.ret)
    /\ \E i, j \in 1..Len(last.ret) : last.ret[i] # last.ret[j]

\* C6: after a fit that returned, decision_scores_ and labels_ have one entry
\* per row of X, threshold_ is the (1 - contamination) quantile of
\* decision_scores_, and labels_[i] is 1 where decision_scores_[i] >=
\* threshold_ and 0 elsewhere.
C6_ScoresThresholdLabels ==
    FitReturned =>
        /\ Len(self.decision_scores_) = last.n_samples
        /\ Len(self.labels_) = last.n_samples
        /\ self.threshold_ =
              Quantile(self.decision_scores_, Unit - self.contamination)
        /\ \A i \in 1..last.n_samples :
              self.labels_[i] =
                  IF Ge(self.decision_scores_[i], self.threshold_)
                  THEN 1 ELSE 0

\* C7: a detector whose contamination is outside (0, 0.5) never gets a model,
\* scores, a threshold or labels written by fit, and a fit whose integer q
\* exceeds the number of rows it is given (so n_sub too) does not return.
C7_ConfigErrorImmediate ==
    /\ ~(0 < self.contamination /\ self.contamination < Unit \div 2) =>
          /\ self.attrs \cap (ModelAttrs \cup {"decision_scores_",
                                               "threshold_", "labels_"}) = {}
          /\ ~fit_completed
    /\ (/\ last.op = "fit"
        /\ self.q.kind = "int"
        /\ self.q.val > last.n_samples) =>
          last.outcome # "ok"

\* what a fit that returned leaves for its callers
FitOutputs(s) ==
    <<s.model_X_S, s.model_K_mat, s.model_alphas, s.decision_scores_,
      s.threshold_, s.labels_>>

\* C8: every fit, whatever the instance fitted before, ends as a fit of the
\* same data on a fresh instance of the same configuration can end: with the
\* same exception or, when it returns, with the same subsample, model,
\* scores, threshold and labels.
C8_RefitFromScratch ==
    last.op = "fit" =>
        LET fresh == Construct(self.q, ctor_sample_pct, self.batch_size,
                               self.contamination)
        IN  IF last.outcome = "ok"
            THEN \E r \in fit(fresh, last.X) :
                    /\ r.outcome = "ok"
                    /\ FitOutputs(r.self) = FitOutputs(self)
            ELSE \E X \in Matrices(MaxRows) :
                    /\ Rows(X) = last.n_samples
                    /\ Cols(X) = last.d
                    /\ \E r \in fit(fresh, X) : r.outcome = last.outcome

\* C9: after a fit that returned, the subsample has at least max(q,
\* d_features) rows and at most n_samples.
C9_SubsampleLargeEnough ==
    FitReturned =>
        /\ Rows(self.model_X_S) >= Max(self.q.val, self.d_features)
        /\ Rows(self.model_X_S) <= last.n_samples

\* C10: a fit that returned dropped no non-positive eigenvalue into the
\* scaling: model_alphas, decision_scores_ and threshold_ hold no nan or inf.
C10_NoNonFiniteModel ==
    FitReturned =>
        /\ \A i \in 1..Rows(self.model_alphas) : ~HasNaN(self.model_alphas[i])
        /\ ~HasNaN(self.decision_scores_)
        /\ ~IsNaN(self.threshold_)

=============================================================================
